---- MODULE Spec2Model ----
(***************************************************************************)
(* A model of the project-manager form-and-list program (src/src/app.ts,   *)
(* src/unnamed/part_000): the singleton ProjectState store with its        *)
(* listeners, the validate function, the ProjectInput form and the         *)
(* ProjectList views.                                                      *)
(*                                                                         *)
(* Strings are sequences of one-character strings.  Numbers are decimal    *)
(* fractions or NaN.  Arrays that the code shares by reference live in a   *)
(* small heap while a handler runs, so that a copy and an alias differ.    *)
(***************************************************************************)
EXTENDS Integers, Sequences, FiniteSets, TLC

VARIABLES
    pc,               \* position in the top-level script of app.ts (lines 303, 510-512)
    instance,         \* ProjectState.instance (static); 0 is undefined
    stores,           \* every ProjectState object ever constructed: listeners, projects
    projectState,     \* the module-level const projectState; 0 before line 303 ran
    subs,             \* the objects the registered callbacks close over: type, assignedProjects
    dom,              \* the <li> titles of the lists "active-projects-list", "finished-projects-list"
    titleInput,       \* titleInputElement.value
    descriptionInput, \* descriptionInputElement.value
    peopleInput,      \* peopleInputElement.value
    alertShown,       \* whether the last submit handler called alert()
    got,              \* what the last getInstance() call returned
    notified,         \* history: the callbacks the last addProject invoked, with the list each received
    calls,            \* history: how often each callback was invoked so far
    regAt,            \* history: the number of addProject calls made before each callback was registered
    addCalls,         \* history: the number of addProject calls so far
    lastOp,           \* history: the operation that made the last step
    v0,               \* the program of part_000 (store without listeners)
    v1,               \* the program of app.ts lines 1-246 (observer-based store)
    vInput,           \* the argument of a validate call
    vResult           \* what that call returned; "none" before the call

vars == <<pc, instance, stores, projectState, subs, dom, titleInput, descriptionInput,
          peopleInput, alertShown, got, notified, calls, regAt, addCalls, lastOp,
          v0, v1, vInput, vResult>>

----------------------------------------------------------------------------
(* Bounds *)

MaxProjects == 2
MaxListeners == 2
MaxStrLen == 3
MaxConstraint == 3
MaxNumLen == 2

----------------------------------------------------------------------------
(* Strings *)

RECURSIVE StringsUpTo(_, _)
StringsUpTo(chars, n) ==
    IF n = 0 THEN {<<>>}
    ELSE LET shorter == StringsUpTo(chars, n - 1)
         IN  shorter \cup {Append(s, c) : s \in shorter, c \in chars}

WhiteSpace == {" "}

RECURSIVE trimStart(_)
trimStart(s) ==
    IF s # <<>> /\ Head(s) \in WhiteSpace THEN trimStart(Tail(s)) ELSE s

RECURSIVE trimEnd(_)
trimEnd(s) ==
    IF s # <<>> /\ s[Len(s)] \in WhiteSpace THEN trimEnd(SubSeq(s, 1, Len(s) - 1)) ELSE s

\* String.prototype.trim
trim(s) == trimEnd(trimStart(s))

----------------------------------------------------------------------------
(* Numbers: (-1)^neg * mant / 10^scale, or NaN *)

NaN == [nan |-> TRUE, neg |-> FALSE, mant |-> 0, scale |-> 0]

RECURSIVE Pow10(_)
Pow10(k) == IF k = 0 THEN 1 ELSE 10 * Pow10(k - 1)

RECURSIVE Normalise(_, _)
Normalise(mant, scale) ==
    IF scale > 0 /\ mant % 10 = 0 THEN Normalise(mant \div 10, scale - 1)
    ELSE [mant |-> mant, scale |-> scale]

Normalised(neg, n) == [nan |-> FALSE, neg |-> neg, mant |-> n.mant, scale |-> n.scale]

Num(neg, mant, scale) == Normalised(neg, Normalise(mant, scale))

IntNum(i) == IF i < 0 THEN Num(TRUE, -i, 0) ELSE Num(FALSE, i, 0)

Digits == <<"0", "1", "2", "3", "4", "5", "6", "7", "8", "9">>

IsDigit(c) == \E d \in 1..Len(Digits) : Digits[d] = c

DigitVal(c) == (CHOOSE d \in 1..Len(Digits) : Digits[d] = c) - 1

RECURSIVE DigitsVal(_)
DigitsVal(s) ==
    IF s = <<>> THEN 0 ELSE 10 * DigitsVal(SubSeq(s, 1, Len(s) - 1)) + DigitVal(s[Len(s)])

AllDigits(s) == \A i \in 1..Len(s) : IsDigit(s[i])

FirstDot(body) ==
    IF \E i \in 1..Len(body) : body[i] = "."
    THEN CHOOSE i \in 1..Len(body) : body[i] = "." /\ \A j \in 1..(i - 1) : body[j] # "."
    ELSE Len(body) + 1

\* digits [. digits] with at least one digit, else NaN
ParseParts(neg, intp, fracp) ==
    IF AllDigits(intp) /\ AllDigits(fracp) /\ Len(intp) + Len(fracp) >= 1
    THEN Num(neg, DigitsVal(intp \o fracp), Len(fracp))
    ELSE NaN

ParseSplit(neg, body, dot) ==
    ParseParts(neg, SubSeq(body, 1, dot - 1), SubSeq(body, dot + 1, Len(body)))

ParseTrimmed(t) ==
    IF t = <<>> THEN Num(FALSE, 0, 0)
    ELSE IF Head(t) = "-" THEN ParseSplit(TRUE, Tail(t), FirstDot(Tail(t)))
    ELSE ParseSplit(FALSE, t, FirstDot(t))

\* The unary plus of gatherUsersInput applied to a string (ToNumber): white
\* space is trimmed, the empty string is 0, a decimal literal with an optional
\* minus sign is its value, anything else is NaN.
ToNumber(s) == ParseTrimmed(trim(s))

RECURSIVE NatToString(_)
NatToString(n) ==
    IF n < 10 THEN <<Digits[n + 1]>>
    ELSE Append(NatToString(n \div 10), Digits[(n % 10) + 1])

RECURSIVE PadLeft(_, _)
PadLeft(s, k) == IF Len(s) >= k THEN s ELSE PadLeft(<<"0">> \o s, k)

\* Number.prototype.toString
NumberToString(n) ==
    IF n.nan THEN <<"N", "a", "N">>
    ELSE (IF n.neg /\ n.mant # 0 THEN <<"-">> ELSE <<>>)
         \o NatToString(n.mant \div Pow10(n.scale))
         \o (IF n.scale = 0 THEN <<>>
             ELSE <<".">> \o PadLeft(NatToString(n.mant % Pow10(n.scale)), n.scale))

\* a > b and a < b on numbers; every comparison with NaN is false
SignedMant(n, scale) == (IF n.neg THEN -1 ELSE 1) * n.mant * Pow10(scale - n.scale)

NumGreater(a, b) ==
    /\ ~a.nan
    /\ ~b.nan
    /\ SignedMant(a, a.scale + b.scale) > SignedMant(b, a.scale + b.scale)

NumLess(a, b) == NumGreater(b, a)

IsInteger(n) == ~n.nan /\ n.scale = 0

----------------------------------------------------------------------------
(* JavaScript values of type string | number *)

StringValue(s) == [type |-> "string", str |-> s, num |-> NaN]

NumberValue(n) == [type |-> "number", str |-> <<>>, num |-> n]

\* value.toString()
toString(v) == IF v.type = "string" THEN v.str ELSE NumberToString(v.num)

----------------------------------------------------------------------------
(* Validation.  An optional property is the empty set when absent and a    *)
(* singleton when present.                                                 *)

Present(opt) == opt # {}

The(opt) == CHOOSE x \in opt : TRUE

\* if (input.required) isValid = isValid && input.value.toString().trim().length !== 0
checkRequired(input, isValid) ==
    IF Present(input.required) /\ The(input.required)
    THEN isValid /\ Len(trim(toString(input.value))) # 0
    ELSE isValid

checkMinLengthInclusive(input, isValid) ==
    IF Present(input.minLength) /\ input.value.type = "string"
    THEN isValid /\ Len(input.value.str) >= The(input.minLength)
    ELSE isValid

\* if (input.minLength != null && typeof input.value === "string") ...
checkMinLength(input, isValid) ==
    IF Present(input.minLength) /\ input.value.type = "string"
    THEN isValid /\ Len(input.value.str) > The(input.minLength)
    ELSE isValid

\* if (input.maxLength != null && typeof input.value === "string") ...
checkMaxLength(input, isValid) ==
    IF Present(input.maxLength) /\ input.value.type = "string"
    THEN isValid /\ Len(input.value.str) < The(input.maxLength)
    ELSE isValid

\* if (input.min != null && typeof input.value === "number") ...
checkMin(input, isValid) ==
    IF Present(input.min) /\ input.value.type = "number"
    THEN isValid /\ NumGreater(input.value.num, IntNum(The(input.min)))
    ELSE isValid

\* if (input.max != null && typeof input.value === "number") ...
checkMax(input, isValid) ==
    IF Present(input.max) /\ input.value.type = "number"
    THEN isValid /\ NumLess(input.value.num, IntNum(The(input.max)))
    ELSE isValid

\* validate(input): isValid starts true and passes through the five ifs
validate(input) ==
    checkMax(input,
        checkMin(input,
            checkMaxLength(input,
                checkMinLength(input,
                    checkRequired(input, TRUE)))))

Validatable(value, required, minLength, maxLength, min, max) ==
    [value |-> value, required |-> required, minLength |-> minLength,
     maxLength |-> maxLength, min |-> min, max |-> max]

----------------------------------------------------------------------------
(* Project type *)

ProjectStatus == {"Active", "Finished"}

Project(id, title, description, people, status) ==
    [id |-> id, title |-> title, description |-> description,
     people |-> people, status |-> status]

\* Math.random().toString(): some non-empty string, not under the program's control
Ids == {"0.25", "0.75"}

----------------------------------------------------------------------------
(* Project state management *)

\* new ProjectState(): the field initialisers of State and ProjectState
NewProjectState == [listeners |-> <<>>, projects |-> <<>>]

getInstanceAlwaysNew(inst, sts) ==
    [instance |-> Len(sts) + 1, stores |-> Append(sts, NewProjectState),
     result |-> Len(sts) + 1]

\* static getInstance(): the instance, created on the first call
getInstance(inst, sts) ==
    IF inst # 0
    THEN [instance |-> inst, stores |-> sts, result |-> inst]
    ELSE [instance |-> Len(sts) + 1, stores |-> Append(sts, NewProjectState),
          result |-> Len(sts) + 1]

addListenerReplace(store, listenerFn) ==
    [store EXCEPT !.listeners = <<listenerFn>>]

\* addListener(listenerFn): this.listeners.push(listenerFn)
addListener(store, listenerFn) ==
    [store EXCEPT !.listeners = Append(@, listenerFn)]

\* Arrays are heap objects: heap[r] is the content of the array with reference r.
\* Reference 0 is this.projects while addProject runs.
sliceAlias(heap, ref) == [heap |-> heap, ref |-> ref]

\* Array.prototype.slice(): a new array with the same elements
slice(heap, ref) ==
    LET n == Cardinality(DOMAIN heap)
    IN  [heap |-> heap @@ (n :> heap[ref]), ref |-> n]

renderProjectsNoClear(d, type, assignedProjects) ==
    [d EXCEPT ![type] = @ \o [k \in 1..Len(assignedProjects) |-> assignedProjects[k].title]]

\* ProjectList.renderProjects: the list is emptied, then one <li> per assigned
\* project, showing its title
renderProjects(d, type, assignedProjects) ==
    LET cleared == [d EXCEPT ![type] = <<>>]
    IN  [cleared EXCEPT ![type] =
            @ \o [k \in 1..Len(assignedProjects) |-> assignedProjects[k].title]]

ViewTypes == {"active", "finished"}

\* The callback ProjectList.configure registers, run on the array with
\* reference ref by the view subs[i]
ProjectListListener(i, ctx, ref) ==
    LET type             == ctx.subs[i].type
        projects         == ctx.heap[ref]
        relevantProjects == SelectSeq(projects,
                                LAMBDA prj : IF type = "active"
                                             THEN prj.status = "Active"
                                             ELSE prj.status = "Finished")
    IN  [ctx EXCEPT !.subs[i].assignedProjects = relevantProjects,
                    !.dom = renderProjects(ctx.dom, type, relevantProjects)]

\* Callbacks a caller of addListener may pass: any function of the array it
\* is handed.  These ones observe it, or push to it, pop from it or reverse it.
ProbeTypes == {"observe", "push", "pop", "reverse"}

Junk == Project("junk", <<"j">>, <<>>, NaN, "Finished")

Reverse(s) == [k \in 1..Len(s) |-> s[Len(s) + 1 - k]]

ProbeListener(i, ctx, ref) ==
    LET type == ctx.subs[i].type
        arr  == ctx.heap[ref]
    IN  CASE type = "push"    -> [ctx EXCEPT !.heap[ref] = Append(arr, Junk)]
          [] type = "pop"     -> [ctx EXCEPT !.heap[ref] = SubSeq(arr, 1, Len(arr) - 1)]
          [] type = "reverse" -> [ctx EXCEPT !.heap[ref] = Reverse(arr)]
          [] OTHER            -> ctx

\* listenerFn(arg) for the callback subs[i]
callListener(i, ctx, ref) ==
    IF ctx.subs[i].type \in ViewTypes
    THEN ProjectListListener(i, ctx, ref)
    ELSE ProbeListener(i, ctx, ref)

\* The call listenerFn(this.projects.slice()) for the callback fn, arg being
\* what slice returned; the history log notes what fn was handed
invoke(fn, ctx, arg) ==
    callListener(fn,
                 [ctx EXCEPT !.heap = arg.heap,
                             !.log = Append(@, [listener |-> fn, list |-> arg.heap[arg.ref]])],
                 arg.ref)

RECURSIVE notifyReversed(_, _, _)
notifyReversed(listeners, k, ctx) ==
    IF k > Len(listeners) THEN ctx
    ELSE notifyReversed(listeners, k + 1,
                        invoke(listeners[Len(listeners) + 1 - k], ctx, slice(ctx.heap, 0)))

\* for (const listenerFn of this.listeners) listenerFn(this.projects.slice()),
\* from the k-th listener on
RECURSIVE notify(_, _, _)
notify(listeners, k, ctx) ==
    IF k > Len(listeners) THEN ctx
    ELSE notify(listeners, k + 1, invoke(listeners[k], ctx, slice(ctx.heap, 0)))

\* The state addProject leaves: this.projects is the array with reference 0
afterNotify(store, done) ==
    [store |-> [store EXCEPT !.projects = done.heap[0]],
     subs |-> done.subs, dom |-> done.dom, log |-> done.log]

newProjectFinished(id, title, description, numberOfPeople) ==
    Project(id, title, description, numberOfPeople, "Finished")

\* new Project(Math.random().toString(), title, description, numberOfPeople,
\* ProjectStatus.Active)
newProject(id, title, description, numberOfPeople) ==
    Project(id, title, description, numberOfPeople, "Active")

pushFront(projects, prj) == <<prj>> \o projects

\* this.projects.push(newProject)
push(projects, prj) == Append(projects, prj)

\* addProject(title, description, numberOfPeople) of the store `store`, with
\* the callbacks' objects s and the document d; id is what Math.random gave.
\* log is the sequence of callback invocations made.
addProject(store, s, d, title, description, numberOfPeople, id) ==
    afterNotify(store,
        notify(store.listeners, 1,
               [heap |-> (0 :> push(store.projects,
                                    newProject(id, title, description, numberOfPeople))),
                subs |-> s, dom |-> d, log |-> <<>>]))

----------------
(* ProjectInput *)

Absent == {}

\* minLength: 5 of validDescription
DescriptionMinLength == 5

Form(title, description, people) ==
    [title |-> title, description |-> description, people |-> people]

\* gatherUsersInput: the tuple [title, description, people], or undefined
\* after an alert
gatherUsersInput(form) ==
    LET enteredTitle       == form.title
        enteredDescription == form.description
        enteredPeople      == form.people
        validTitle       == Validatable(StringValue(enteredTitle), {TRUE},
                                        Absent, Absent, Absent, Absent)
        validDescription == Validatable(StringValue(enteredDescription), {TRUE},
                                        {DescriptionMinLength}, Absent, Absent, Absent)
        validPeople      == Validatable(NumberValue(ToNumber(enteredPeople)), {TRUE},
                                        Absent, Absent, Absent, Absent)
    IN  IF ~validate(validTitle) \/ ~validate(validDescription) \/ ~validate(validPeople)
        THEN [isArray |-> FALSE, alert |-> TRUE, title |-> <<>>, description |-> <<>>,
              people |-> NaN]
        ELSE [isArray |-> TRUE, alert |-> FALSE, title |-> enteredTitle,
              description |-> enteredDescription, people |-> ToNumber(enteredPeople)]

\* clearInputs
clearInputsPeopleOnly(form) == [form EXCEPT !.people = <<>>]

clearInputs(form) == Form(<<>>, <<>>, <<>>)

\* The rest of submitHandler after addProject returned r
submitted(form, r) ==
    [form |-> clearInputs(form), store |-> r.store, subs |-> r.subs, dom |-> r.dom,
     log |-> r.log, alert |-> FALSE, added |-> TRUE]

\* submitHandler, userInput being what gatherUsersInput returned
handle(form, store, s, d, id, userInput) ==
    IF userInput.isArray
    THEN submitted(form, addProject(store, s, d, userInput.title, userInput.description,
                                    userInput.people, id))
    ELSE [form |-> form, store |-> store, subs |-> s, dom |-> d, log |-> <<>>,
          alert |-> userInput.alert, added |-> FALSE]

\* submitHandler(event)
submitHandler(form, store, s, d, id) ==
    handle(form, store, s, d, id, gatherUsersInput(form))

\* new ProjectList(type): assignedProjects = [], configure() registers the
\* callback, renderContent() names the list
NewProjectList(type) == [type |-> type, assignedProjects |-> <<>>]

EmptyDom == [t \in ViewTypes |-> <<>>]

----------------------------------------------------------------------------
(* The program of app.ts, lines 248-512 *)

Rep(c, n) == [k \in 1..n |-> c]

\* What a user may type into the three inputs
TitleInputs == {<<" ">>, <<"a">>, <<"b">>}

DescriptionInputs == {Rep("d", 5), Rep("d", 6)}

PeopleInputs == {<<>>, <<"x">>, <<".", "5">>, <<"3">>}

otherVars == <<v0, v1, vInput, vResult>>

NoVersion == [loaded |-> FALSE]

Init ==
    /\ pc = "getInstance"
    /\ instance = 0
    /\ stores = <<>>
    /\ projectState = 0
    /\ subs = <<>>
    /\ dom = EmptyDom
    /\ titleInput = <<>>
    /\ descriptionInput = <<>>
    /\ peopleInput = <<>>
    /\ alertShown = FALSE
    /\ got = 0
    /\ notified = <<>>
    /\ calls = <<>>
    /\ regAt = <<>>
    /\ addCalls = 0
    /\ lastOp = "none"
    /\ v0 = NoVersion
    /\ v1 = NoVersion
    /\ vInput = Validatable(StringValue(<<>>), Absent, Absent, Absent, Absent, Absent)
    /\ vResult = "none"

\* line 303: const projectState = ProjectState.getInstance()
LoadProjectState ==
    /\ pc = "getInstance"
    /\ \E r \in {getInstance(instance, stores)} :
           /\ instance' = r.instance
           /\ stores' = r.stores
           /\ projectState' = r.result
           /\ got' = r.result
    /\ pc' = "newProjectInput"
    /\ lastOp' = "getInstance"
    /\ UNCHANGED <<subs, dom, titleInput, descriptionInput, peopleInput, alertShown,
                   notified, calls, regAt, addCalls>>
    /\ UNCHANGED otherVars

\* line 510: const prjInput = new ProjectInput()
LoadProjectInput ==
    /\ pc = "newProjectInput"
    /\ pc' = "newActive"
    /\ lastOp' = "newProjectInput"
    /\ UNCHANGED <<instance, stores, projectState, subs, dom, titleInput, descriptionInput,
                   peopleInput, alertShown, got, notified, calls, regAt, addCalls>>
    /\ UNCHANGED otherVars

\* The registration of one more callback, whose object is sub
Register(sub) ==
    /\ subs' = Append(subs, sub)
    /\ stores' = [stores EXCEPT ![projectState] = addListener(@, Len(subs) + 1)]
    /\ calls' = Append(calls, 0)
    /\ regAt' = Append(regAt, addCalls)

\* lines 511, 512: new ProjectList("active"), new ProjectList("finished")
LoadProjectList ==
    /\ pc \in {"newActive", "newFinished"}
    /\ Register(NewProjectList(IF pc = "newActive" THEN "active" ELSE "finished"))
    /\ pc' = IF pc = "newActive" THEN "newFinished" ELSE "ready"
    /\ lastOp' = "addListener"
    /\ UNCHANGED <<instance, projectState, dom, titleInput, descriptionInput, peopleInput,
                   alertShown, got, notified, addCalls>>
    /\ UNCHANGED otherVars

\* The user edits the three inputs
Type ==
    /\ pc = "ready"
    /\ \E t \in TitleInputs, d \in DescriptionInputs, p \in PeopleInputs :
          /\ titleInput' = t
          /\ descriptionInput' = d
          /\ peopleInput' = p
    /\ lastOp' = "type"
    /\ UNCHANGED <<pc, instance, stores, projectState, subs, dom, alertShown, got,
                   notified, calls, regAt, addCalls>>
    /\ UNCHANGED otherVars

CountCalls(log, i) == Cardinality({k \in 1..Len(log) : log[k].listener = i})

\* What one run of addProject leaves in the history variables
Record(log) ==
    /\ notified' = log
    /\ calls' = [i \in 1..Len(calls) |-> calls[i] + CountCalls(log, i)]
    /\ addCalls' = addCalls + 1

\* The form's submit event
Submit ==
    /\ pc = "ready"
    /\ addCalls < MaxProjects
    /\ \E id \in Ids :
          \E r \in {submitHandler(Form(titleInput, descriptionInput, peopleInput),
                                  stores[projectState], subs, dom, id)} :
              /\ titleInput' = r.form.title
              /\ descriptionInput' = r.form.description
              /\ peopleInput' = r.form.people
              /\ alertShown' = r.alert
              /\ stores' = [stores EXCEPT ![projectState] = r.store]
              /\ subs' = r.subs
              /\ dom' = r.dom
              /\ IF r.added THEN Record(r.log) ELSE UNCHANGED <<notified, calls, addCalls>>
    /\ lastOp' = "submit"
    /\ UNCHANGED <<pc, instance, projectState, got, regAt>>
    /\ UNCHANGED otherVars

\* Any later ProjectState.getInstance()
CallGetInstance ==
    /\ pc = "ready"
    /\ \E r \in {getInstance(instance, stores)} :
           /\ instance' = r.instance
           /\ stores' = r.stores
           /\ got' = r.result
    /\ lastOp' = "getInstance"
    /\ UNCHANGED <<pc, projectState, subs, dom, titleInput, descriptionInput, peopleInput,
                   alertShown, notified, calls, regAt, addCalls>>
    /\ UNCHANGED otherVars

Next ==
    \/ LoadProjectState
    \/ LoadProjectInput
    \/ LoadProjectList
    \/ Type
    \/ Submit
    \/ CallGetInstance

Spec == Init /\ [][Next]_vars

----------------------------------------------------------------------------
(* The store driven through its interface: any sequence of addListener and *)
(* addProject calls, with callbacks that may change the array they get     *)

StoreTitles == {<<"a">>, <<"b">>}

InitStore ==
    /\ pc = "ready"
    /\ instance = 1
    /\ stores = <<NewProjectState>>
    /\ projectState = 1
    /\ subs = <<>>
    /\ dom = EmptyDom
    /\ titleInput = <<>>
    /\ descriptionInput = <<>>
    /\ peopleInput = <<>>
    /\ alertShown = FALSE
    /\ got = 1
    /\ notified = <<>>
    /\ calls = <<>>
    /\ regAt = <<>>
    /\ addCalls = 0
    /\ lastOp = "none"
    /\ v0 = NoVersion
    /\ v1 = NoVersion
    /\ vInput = Validatable(StringValue(<<>>), Absent, Absent, Absent, Absent, Absent)
    /\ vResult = "none"

\* projectState.addListener(fn)
StoreAddListener ==
    /\ Len(subs) < MaxListeners
    /\ \E type \in ProbeTypes : Register([type |-> type, assignedProjects |-> <<>>])
    /\ lastOp' = "addListener"
    /\ UNCHANGED <<pc, instance, projectState, dom, titleInput, descriptionInput, peopleInput,
                   alertShown, got, notified, addCalls>>
    /\ UNCHANGED otherVars

\* projectState.addProject(title, description, numberOfPeople)
StoreAddProject ==
    /\ addCalls < MaxProjects
    /\ \E title \in StoreTitles, id \in Ids :
          \E r \in {addProject(stores[projectState], subs, dom, title, Rep("d", 6),
                               IntNum(3), id)} :
              /\ stores' = [stores EXCEPT ![projectState] = r.store]
              /\ subs' = r.subs
              /\ dom' = r.dom
              /\ Record(r.log)
    /\ lastOp' = "addProject"
    /\ UNCHANGED <<pc, instance, projectState, titleInput, descriptionInput, peopleInput,
                   alertShown, got, regAt>>
    /\ UNCHANGED otherVars

NextStore ==
    \/ StoreAddListener
    \/ StoreAddProject

SpecStore == InitStore /\ [][NextStore]_vars

----------------------------------------------------------------------------
(* validate called on its own *)

StringChars == {" ", "a"}

NumberChars == {"-", ".", "1"}

Opt(S) == {{}} \cup {{x} : x \in S}

Values ==
    {StringValue(str) : str \in StringsUpTo(StringChars, MaxStrLen)}
        \cup {NumberValue(ToNumber(str)) : str \in StringsUpTo(NumberChars, MaxNumLen)}

Validatables ==
    {Validatable(value, required, minLength, maxLength, min, max) :
        value \in Values, required \in Opt(BOOLEAN),
        minLength \in Opt(0..MaxConstraint), maxLength \in Opt(0..MaxConstraint),
        min \in Opt(0..MaxConstraint), max \in Opt(0..MaxConstraint)}

BoolStr(b) == IF b THEN "true" ELSE "false"

InitValidate ==
    /\ pc = "ready"
    /\ instance = 1
    /\ stores = <<NewProjectState>>
    /\ projectState = 1
    /\ subs = <<>>
    /\ dom = EmptyDom
    /\ titleInput = <<>>
    /\ descriptionInput = <<>>
    /\ peopleInput = <<>>
    /\ alertShown = FALSE
    /\ got = 1
    /\ notified = <<>>
    /\ calls = <<>>
    /\ regAt = <<>>
    /\ addCalls = 0
    /\ lastOp = "none"
    /\ v0 = NoVersion
    /\ v1 = NoVersion
    /\ vInput \in Validatables
    /\ vResult = "none"

\* validate(vInput)
Validate ==
    /\ vResult = "none"
    /\ vResult' = BoolStr(validate(vInput))
    /\ lastOp' = "validate"
    /\ UNCHANGED <<pc, instance, stores, projectState, subs, dom, titleInput,
                   descriptionInput, peopleInput, alertShown, got, notified, calls, regAt,
                   addCalls, v0, v1, vInput>>

NextValidate == Validate

SpecValidate == InitValidate /\ [][NextValidate]_vars

----------------------------------------------------------------------------
(* The three versions of the program, given the same user input *)

\* part_000, addProject: the object pushed has no status property
addProject0(projects, title, description, numberOfPeople, id) ==
    Append(projects,
           [id |-> id, title |-> title, description |-> description,
            people |-> numberOfPeople])

\* part_000, submitHandler, userInput being what gatherUsersInput returned
handle0(v, id, userInput) ==
    IF userInput.isArray
    THEN [v EXCEPT !.projects = addProject0(@, userInput.title, userInput.description,
                                            userInput.people, id),
                   !.form = clearInputs(@),
                   !.alert = FALSE]
    ELSE [v EXCEPT !.alert = userInput.alert]

\* part_000, submitHandler; its ProjectList has no renderProjects
submitHandler0(v, id) == handle0(v, id, gatherUsersInput(v.form))

addProject1Swapped(store, s, d, title, description, numberOfPeople, id) ==
    afterNotify(store,
        notify(store.listeners, 1,
               [heap |-> (0 :> Append(store.projects,
                                      Project(id, description, title, numberOfPeople,
                                              "Active"))),
                subs |-> s, dom |-> d, log |-> <<>>]))

\* app.ts lines 35-47, addProject of the observer-based store
addProject1(store, s, d, title, description, numberOfPeople, id) ==
    afterNotify(store,
        notify(store.listeners, 1,
               [heap |-> (0 :> Append(store.projects,
                                      Project(id, title, description, numberOfPeople,
                                              "Active"))),
                subs |-> s, dom |-> d, log |-> <<>>]))

\* app.ts lines 227-238, the rest of submitHandler after addProject returned r
submitted1(v, r) ==
    [v EXCEPT !.store = r.store, !.subs = r.subs, !.dom = r.dom,
              !.form = clearInputs(@), !.alert = FALSE]

handle1(v, id, userInput) ==
    IF userInput.isArray
    THEN submitted1(v, addProject1(v.store, v.subs, v.dom, userInput.title,
                                   userInput.description, userInput.people, id))
    ELSE [v EXCEPT !.alert = userInput.alert]

\* app.ts lines 227-238, submitHandler
submitHandler1(v, id) == handle1(v, id, gatherUsersInput(v.form))

\* The state each script leaves when it has run to its end
Loaded0 ==
    [loaded |-> TRUE, form |-> Form(<<>>, <<>>, <<>>), projects |-> <<>>,
     dom |-> EmptyDom, alert |-> FALSE]

Loaded1 ==
    [loaded |-> TRUE, form |-> Form(<<>>, <<>>, <<>>),
     store |-> addListener(addListener(NewProjectState, 1), 2),
     subs |-> <<NewProjectList("active"), NewProjectList("finished")>>,
     dom |-> EmptyDom, alert |-> FALSE]

VersionTitles == {<<" ">>, <<"a">>, <<"b">>}

VersionPeople == {<<"3">>}

InitVersions ==
    /\ pc = "ready"
    /\ instance = 1
    /\ stores = <<addListener(addListener(NewProjectState, 1), 2)>>
    /\ projectState = 1
    /\ subs = <<NewProjectList("active"), NewProjectList("finished")>>
    /\ dom = EmptyDom
    /\ titleInput = <<>>
    /\ descriptionInput = <<>>
    /\ peopleInput = <<>>
    /\ alertShown = FALSE
    /\ got = 1
    /\ notified = <<>>
    /\ calls = <<0, 0>>
    /\ regAt = <<0, 0>>
    /\ addCalls = 0
    /\ lastOp = "none"
    /\ v0 = Loaded0
    /\ v1 = Loaded1
    /\ vInput = Validatable(StringValue(<<>>), Absent, Absent, Absent, Absent, Absent)
    /\ vResult = "none"

\* The user types the same text into the three programs
VersionsType ==
    /\ \E t \in VersionTitles, d \in DescriptionInputs, p \in VersionPeople :
          /\ titleInput' = t
          /\ descriptionInput' = d
          /\ peopleInput' = p
          /\ v0' = [v0 EXCEPT !.form = Form(t, d, p)]
          /\ v1' = [v1 EXCEPT !.form = Form(t, d, p)]
    /\ lastOp' = "type"
    /\ UNCHANGED <<pc, instance, stores, projectState, subs, dom, alertShown, got,
                   notified, calls, regAt, addCalls, vInput, vResult>>

\* The submit event in the three programs
VersionsSubmit ==
    /\ addCalls < MaxProjects
    /\ \E id \in Ids, id0 \in Ids, id1 \in Ids :
          \E r \in {submitHandler(Form(titleInput, descriptionInput, peopleInput),
                                  stores[projectState], subs, dom, id)} :
              /\ titleInput' = r.form.title
              /\ descriptionInput' = r.form.description
              /\ peopleInput' = r.form.people
              /\ alertShown' = r.alert
              /\ stores' = [stores EXCEPT ![projectState] = r.store]
              /\ subs' = r.subs
              /\ dom' = r.dom
              /\ IF r.added THEN Record(r.log) ELSE UNCHANGED <<notified, calls, addCalls>>
              /\ v0' = submitHandler0(v0, id0)
              /\ v1' = submitHandler1(v1, id1)
    /\ lastOp' = "submit"
    /\ UNCHANGED <<pc, instance, projectState, got, regAt, vInput, vResult>>

NextVersions ==
    \/ VersionsType
    \/ VersionsSubmit

SpecVersions == InitVersions /\ [][NextVersions]_vars

----------------------------------------------------------------------------
(* Properties of the store *)

TheStore == stores[projectState]

IsPrefix(s, t) == Len(s) <= Len(t) /\ SubSeq(t, 1, Len(s)) = s

Mutators == {"push", "pop", "reverse"}

C1_AddProjectStep ==
    lastOp' = "addProject" =>
        /\ Len(stores'[projectState].projects) = Len(TheStore.projects) + 1
        /\ IsPrefix(TheStore.projects, stores'[projectState].projects)
        /\ stores'[projectState].projects[Len(TheStore.projects) + 1].status = "Active"
        /\ Len(notified') = Len(subs)
        /\ \A k \in 1..Len(notified') :
              /\ notified'[k].listener = k
              /\ notified'[k].list = stores'[projectState].projects
        /\ \A i \in 1..Len(calls) : calls'[i] = calls[i] + 1

\* C1: every addProject call appends exactly one Project with status Active
\* to the end of the store's list and then invokes every registered callback
\* exactly once, in registration order, each with the store's full list
\* including the new Project.
C1_FanOutInOrder == [][C1_AddProjectStep]_vars

C1_Witness ==
    /\ lastOp = "addProject"
    /\ addCalls = 2
    /\ Len(notified) = 2
    /\ notified[1].listener = 1
    /\ notified[2].listener = 2

\* C2: the list a callback receives is a copy: when a callback adds to,
\* removes from or reorders the list it received, the store's list still holds
\* exactly the projects added, and that callback and every callback invoked
\* after it in the same fan-out received the store's full, unaltered list.
C2_SnapshotIsCopy ==
    \A k \in 1..Len(notified) :
        subs[notified[k].listener].type \in Mutators =>
            /\ Len(TheStore.projects) = addCalls
            /\ \A n \in 1..Len(TheStore.projects) : TheStore.projects[n] # Junk
            /\ \A j \in k..Len(notified) : notified[j].list = TheStore.projects

C2_Witness ==
    /\ Len(notified) = 2
    /\ subs[notified[1].listener].type \in Mutators
    /\ Len(TheStore.projects) = 2
    /\ TheStore.projects[1] # TheStore.projects[2]

C3_AddListenerStep ==
    lastOp' = "addListener" =>
        /\ stores'[projectState].projects = TheStore.projects
        /\ notified' = notified
        /\ Len(calls') = Len(calls) + 1
        /\ calls'[Len(calls')] = 0
        /\ \A i \in 1..Len(calls) : calls'[i] = calls[i]

C3_InvokedSinceRegistration ==
    /\ Len(calls) = Len(subs)
    /\ \A i \in 1..Len(subs) : calls[i] = addCalls - regAt[i]

\* C3: addListener neither invokes the callback it registers nor changes the
\* project list or any earlier callback's invocations; a callback registered
\* after k addProject calls has been invoked exactly once for each addProject
\* call made since, so never before the next one and on every later one.
C3_NoReplayThenEveryCall == [][C3_AddListenerStep]_vars /\ []C3_InvokedSinceRegistration

C3_Witness ==
    /\ addCalls = 2
    /\ \E i \in 1..Len(subs) : regAt[i] = 1 /\ calls[i] = 1
    /\ \E i \in 1..Len(subs) : regAt[i] = 0 /\ calls[i] = 2

\* C4: every Project the store holds, and every Project a view was handed,
\* has status Active.
C4_AllActive ==
    /\ \A i \in 1..Len(stores) : \A n \in 1..Len(stores[i].projects) :
          stores[i].projects[n].status = "Active"
    /\ \A i \in 1..Len(subs) : \A n \in 1..Len(subs[i].assignedProjects) :
          subs[i].assignedProjects[n].status = "Active"

C4_Witness ==
    /\ pc = "ready"
    /\ Len(TheStore.projects) = 2
    /\ Len(subs[1].assignedProjects) = 2

C5_Step ==
    \A i \in 1..Len(stores) :
        /\ i \in 1..Len(stores')
        /\ IsPrefix(stores[i].projects, stores'[i].projects)

\* C5: the store's project list is append-only: every step leaves the list it
\* had as a prefix of the list it has, so no stored Project is removed,
\* reordered or changed in any field.
C5_AppendOnly == [][C5_Step]_vars

C5_Witness ==
    /\ pc = "ready"
    /\ Len(TheStore.projects) = 2
    /\ TheStore.projects[1].title # TheStore.projects[2].title

----------------------------------------------------------------------------
(* Properties of the form *)

FieldsValid(title, description, people) ==
    /\ validate(Validatable(StringValue(title), {TRUE}, Absent, Absent, Absent, Absent))
    /\ validate(Validatable(StringValue(description), {TRUE}, {DescriptionMinLength},
                            Absent, Absent, Absent))
    /\ validate(Validatable(NumberValue(ToNumber(people)), {TRUE}, Absent, Absent, Absent,
                            Absent))

C7_SubmitStep ==
    lastOp' = "submit" =>
        IF FieldsValid(titleInput, descriptionInput, peopleInput)
        THEN /\ Len(stores'[projectState].projects) = Len(TheStore.projects) + 1
             /\ IsPrefix(TheStore.projects, stores'[projectState].projects)
             /\ \E id \in Ids :
                   stores'[projectState].projects[Len(TheStore.projects) + 1]
                      = Project(id, titleInput, descriptionInput, ToNumber(peopleInput),
                                "Active")
             /\ titleInput' = <<>>
             /\ descriptionInput' = <<>>
             /\ peopleInput' = <<>>
             /\ ~alertShown'
        ELSE /\ alertShown'
             /\ titleInput' = titleInput
             /\ descriptionInput' = descriptionInput
             /\ peopleInput' = peopleInput
             /\ stores' = stores
             /\ calls' = calls
             /\ subs' = subs
             /\ dom' = dom

\* C7: on a submit, if a field fails validation an alert is shown, the three
\* inputs, the store's list and the rendered lists are left as they were and no
\* callback is invoked; if all three pass, exactly one Project with the entered
\* title, description and numeric headcount is appended and the three inputs
\* are cleared.
C7_SubmitValidOrAlert == [][C7_SubmitStep]_vars

C7_Witness ==
    /\ lastOp = "submit"
    /\ alertShown
    /\ titleInput = <<"a">>
    /\ descriptionInput = Rep("d", 5)
    /\ Len(TheStore.projects) = 1
    /\ calls = <<1, 1>>

\* C8: every Project that reached the store through the form has a people
\* value that is an integer.
C8_PeopleIsInteger ==
    \A i \in 1..Len(stores) : \A n \in 1..Len(stores[i].projects) :
        IsInteger(stores[i].projects[n].people)

----------------------------------------------------------------------------
(* Properties of getInstance *)

C10_OneInstance ==
    /\ Len(stores) <= 1
    /\ pc # "getInstance" => instance = 1 /\ got = 1 /\ projectState = 1

C10_GetInstanceStep ==
    (lastOp' = "getInstance" /\ instance # 0) =>
        /\ got' = instance
        /\ instance' = instance
        /\ stores' = stores

\* C10: getInstance creates the store on the first call and returns that same
\* instance on every later call, leaving its listeners and project list as
\* they were; at most one store instance ever exists.
C10_Singleton == []C10_OneInstance /\ [][C10_GetInstanceStep]_vars

C10_Witness ==
    /\ lastOp = "getInstance"
    /\ pc = "ready"
    /\ got = 1
    /\ Len(TheStore.projects) = 2
    /\ Len(TheStore.listeners) = 2

----------------------------------------------------------------------------
(* Properties of validate *)

IsString(v) == v.type = "string"

IsNumber(v) == v.type = "number"

Required(input) == input.required = {TRUE}

\* The conjunction of the constraints present, a constraint on the length
\* applying to strings only and a constraint on the magnitude to numbers only
C6_Conjunction(input, requiredHolds) ==
    /\ Required(input) => requiredHolds
    /\ \A n \in input.minLength : IsString(input.value) => Len(input.value.str) > n
    /\ \A n \in input.maxLength : IsString(input.value) => Len(input.value.str) < n
    /\ \A n \in input.min : IsNumber(input.value) => NumGreater(input.value.num, IntNum(n))
    /\ \A n \in input.max : IsNumber(input.value) => NumLess(input.value.num, IntNum(n))

\* a string with a character that is not white space, or any number
NonBlank(v) == IsNumber(v) \/ \E k \in 1..Len(v.str) : v.str[k] \notin WhiteSpace

\* a string of at least one character, or any number
NonEmpty(v) == IsNumber(v) \/ Len(v.str) > 0

\* C6 as amended: validate returns the conjunction of the constraints present,
\* where required holds when the value is a number or a string that is not
\* empty after trimming white space, minLength/maxLength hold of a string
\* strictly longer/shorter than the bound and are ignored for a number, and
\* min/max hold of a number strictly greater/less than the bound and are
\* ignored for a string.
C6_ValidateIsConjunction ==
    vResult # "none" => vResult = BoolStr(C6_Conjunction(vInput, NonBlank(vInput.value)))

\* C6 as stated: the same, with required holding when the value is non-empty.
C6_RequiredMeansNonEmpty ==
    vResult # "none" => vResult = BoolStr(C6_Conjunction(vInput, NonEmpty(vInput.value)))

C6_Witness ==
    /\ vResult = "false"
    /\ vInput = Validatable(StringValue(<<"a", "a">>), Absent, {2}, Absent, Absent, Absent)

----------------------------------------------------------------------------
(* Properties of the three versions *)

Stored(projects) ==
    [n \in 1..Len(projects) |->
        <<projects[n].title, projects[n].description, projects[n].people>>]

StatusOf(prj) == IF "status" \in DOMAIN prj THEN prj.status ELSE "undefined"

Statuses(projects) == [n \in 1..Len(projects) |-> StatusOf(projects[n])]

SameDecisions ==
    /\ v0.alert = alertShown
    /\ v1.alert = alertShown
    /\ v0.form = Form(titleInput, descriptionInput, peopleInput)
    /\ v1.form = Form(titleInput, descriptionInput, peopleInput)

SameStored ==
    /\ Stored(v0.projects) = Stored(TheStore.projects)
    /\ Stored(v1.store.projects) = Stored(TheStore.projects)

\* C9 as amended: on the same submissions the three versions accept and
\* reject the same ones and store the same titles, descriptions and people in
\* the same order; the two versions of app.ts also store the same status and
\* render the same lists, while the version of part_000 stores no status and
\* renders nothing.
C9_VersionsAgreeOnStore ==
    /\ SameDecisions
    /\ SameStored
    /\ Statuses(v1.store.projects) = Statuses(TheStore.projects)
    /\ v1.dom = dom
    /\ v0.dom = EmptyDom
    /\ \A n \in 1..Len(v0.projects) : StatusOf(v0.projects[n]) = "undefined"

\* C9 as stated: the three versions also store the same status and render the
\* same lists.
C9_VersionsIdentical ==
    /\ SameDecisions
    /\ SameStored
    /\ Statuses(v1.store.projects) = Statuses(TheStore.projects)
    /\ Statuses(v0.projects) = Statuses(TheStore.projects)
    /\ v1.dom = dom
    /\ v0.dom = dom

C9_Witness ==
    /\ lastOp = "submit"
    /\ Len(TheStore.projects) = 2
    /\ Len(v0.projects) = 2
    /\ Len(v1.store.projects) = 2
    /\ dom["active"] = <<<<"a">>, <<"b">>>>

----------------------------------------------------------------------------
(* Properties of the list views *)

Titles(projects) == [n \in 1..Len(projects) |-> projects[n].title]

WithStatus(projects, status) == SelectSeq(projects, LAMBDA prj : prj.status = status)

StatusShown(type) == IF type = "active" THEN "Active" ELSE "Finished"

\* The view of the given type has been notified at least once
Notified(i) == calls[i] > 0

\* C11: once a view has been notified, its assigned projects are the store's
\* projects whose status matches its type, in store order, and its rendered
\* list holds exactly their titles, one item each, nothing left over from an
\* earlier render; so after n accepted submissions the active list shows the n
\* submitted titles in submission order, and the finished list shows no item
\* in any reachable state.
C11_RenderedIsFilteredStore ==
    /\ dom["finished"] = <<>>
    /\ \A i \in 1..Len(subs) :
          (subs[i].type \in ViewTypes /\ Notified(i)) =>
              /\ subs[i].assignedProjects
                    = WithStatus(TheStore.projects, StatusShown(subs[i].type))
              /\ dom[subs[i].type] = Titles(subs[i].assignedProjects)
    /\ pc = "ready" =>
          /\ Len(dom["active"]) = addCalls
          /\ dom["active"] = Titles(TheStore.projects)

C11_Witness ==
    /\ lastOp = "submit"
    /\ addCalls = 2
    /\ dom["active"] = <<<<"a">>, <<"b">>>>
    /\ Notified(2)
    /\ subs[2].type = "finished"

====
